---- MODULE Spec2Model ----
(***************************************************************************)
(* Model of aggregator.py: the blocklist feed aggregator.                  *)
(*                                                                         *)
(*   download_source      one URL, up to three attempts, 1 s backoff       *)
(*   download_single_list download_source + parse_line over every line     *)
(*   download_all_feeds   ThreadPoolExecutor(max_workers=10) + as_completed*)
(*   process_feeds        token classification, set(), sorted()            *)
(*   main                 download, process, write blocklist.json          *)
(*                                                                         *)
(* Text is modelled by TLA+ strings; a Python value that may be None is a  *)
(* sequence of length 0 (None) or 1 (the value).                           *)
(***************************************************************************)
EXTENDS Integers, Sequences, FiniteSets, TLC

(***************************************************************************)
(* Program constants.                                                      *)
(***************************************************************************)
max_workers == 10
LastAttempt == 3
BackoffBefore == 3

(***************************************************************************)
(* Bounds of the model.                                                    *)
(***************************************************************************)
NumSources == 3
Overflow == 1
MaxTokens == 3

(***************************************************************************)
(* Python str helpers.                                                     *)
(***************************************************************************)
Ch(s, i) == SubSeq(s, i, i)

Contains(s, c) == \E i \in 1..Len(s) : Ch(s, i) = c

RECURSIVE count(_, _)
count(s, c) ==
    IF s = "" THEN 0
    ELSE (IF Head(s) = c THEN 1 ELSE 0) + count(Tail(s), c)

RECURSIVE split(_, _)
split(s, c) ==
    IF ~Contains(s, c) THEN <<s>>
    ELSE LET i == CHOOSE k \in 1..Len(s) :
                      Ch(s, k) = c /\ \A j \in 1..(k - 1) : Ch(s, j) # c
         IN  <<SubSeq(s, 1, i - 1)>> \o split(SubSeq(s, i + 1, Len(s)), c)

Whitespace == {" ", "\t"}

RECURSIVE lstrip(_)
lstrip(s) == IF s # "" /\ Head(s) \in Whitespace THEN lstrip(Tail(s)) ELSE s

RECURSIVE rstrip(_)
rstrip(s) ==
    IF s # "" /\ Ch(s, Len(s)) \in Whitespace
    THEN rstrip(SubSeq(s, 1, Len(s) - 1)) ELSE s

strip(s) == rstrip(lstrip(s))

DecDigits == {"0", "1", "2", "3", "4", "5", "6", "7", "8", "9"}

DigitVal(c) ==
    CASE c = "0" -> 0 [] c = "1" -> 1 [] c = "2" -> 2 [] c = "3" -> 3
      [] c = "4" -> 4 [] c = "5" -> 5 [] c = "6" -> 6 [] c = "7" -> 7
      [] c = "8" -> 8 [] c = "9" -> 9
      [] c \in {"a", "A"} -> 10 [] c \in {"b", "B"} -> 11
      [] c \in {"c", "C"} -> 12 [] c \in {"d", "D"} -> 13
      [] c \in {"e", "E"} -> 14 [] c \in {"f", "F"} -> 15

isdigit(s) == s # "" /\ \A i \in 1..Len(s) : Ch(s, i) \in DecDigits

\* The value of a digit string in the given base; "_" separators are skipped.
RECURSIVE DigitsValue(_, _, _)
DigitsValue(s, base, acc) ==
    IF s = "" THEN acc
    ELSE IF Head(s) = "_" THEN DigitsValue(Tail(s), base, acc)
    ELSE DigitsValue(Tail(s), base, acc * base + DigitVal(Head(s)))

Fail == [ok |-> FALSE, val |-> 0]
Ok(v) == [ok |-> TRUE, val |-> v]

\* The digits of an int() argument: decimal, single "_" between digits.
IntDigits(body) ==
    /\ body # ""
    /\ \A i \in 1..Len(body) :
          \/ Ch(body, i) \in DecDigits
          \/ /\ Ch(body, i) = "_"
             /\ 1 < i /\ i < Len(body)
             /\ Ch(body, i - 1) \in DecDigits
             /\ Ch(body, i + 1) \in DecDigits

Signed(t, magnitude) == IF Head(t) = "-" THEN Ok(0 - magnitude) ELSE Ok(magnitude)

IntOfBody(t, body) ==
    IF IntDigits(body) THEN Signed(t, DigitsValue(body, 10, 0)) ELSE Fail

IntOfStripped(t) ==
    IntOfBody(t, IF t # "" /\ Head(t) \in {"+", "-"} THEN Tail(t) ELSE t)

\* int(s): surrounding whitespace, an optional sign, decimal digits with
\* single "_" between digits; anything else raises ValueError (Fail).
py_int(s) == IntOfStripped(strip(s))

(***************************************************************************)
(* ipaddress: IPv4 and IPv6 literals (the standard library, as parse_ip    *)
(* uses it).  Integers are the addresses' integer values.                  *)
(***************************************************************************)
NoOctets == [ok |-> FALSE, val |-> <<>>]

RECURSIVE Pow2(_)
Pow2(n) == IF n = 0 THEN 1 ELSE 2 * Pow2(n - 1)

OctetInRange(v) == IF v <= 255 THEN Ok(v) ELSE Fail

\* _BaseV4._parse_octet
parse_octet(s) ==
    IF isdigit(s) /\ Len(s) <= 3 /\ ~(s # "0" /\ Head(s) = "0")
    THEN OctetInRange(DigitsValue(s, 10, 0)) ELSE Fail

AllOctets(ps) ==
    IF \A i \in 1..4 : ps[i].ok
    THEN [ok |-> TRUE, val |-> [i \in 1..4 |-> ps[i].val]] ELSE NoOctets

OctetsOfParts(parts) ==
    IF Len(parts) = 4
    THEN AllOctets([i \in 1..4 |-> parse_octet(parts[i])]) ELSE NoOctets

\* _BaseV4._ip_int_from_string, kept as the four octets
v4_octets(s) == OctetsOfParts(split(s, "."))

\* int.from_bytes(octets, 'big')
Pack(o) == ((o[1] * 256 + o[2]) * 256 + o[3]) * 256 + o[4]

PackIfOk(octets) == IF octets.ok THEN Ok(Pack(octets.val)) ELSE Fail

IPv4Address(s) == IF Contains(s, "/") THEN Fail ELSE PackIfOk(v4_octets(s))

HexDigits == DecDigits \cup {"a", "b", "c", "d", "e", "f",
                             "A", "B", "C", "D", "E", "F"}

\* _BaseV6._parse_hextet
parse_hextet(s) ==
    IF (\A i \in 1..Len(s) : Ch(s, i) \in HexDigits) /\ Len(s) <= 4 /\ s # ""
    THEN Ok(DigitsValue(s, 16, 0)) ELSE Fail

V6Part(p) == [empty |-> p = "", h |-> parse_hextet(p)]

V6Hextet(v) == [empty |-> FALSE, h |-> Ok(v)]

\* An IPv4-style suffix is replaced by its two hextets.
V6Suffix(front, octets) ==
    IF ~octets.ok THEN NoOctets
    ELSE [ok |-> TRUE,
          val |-> front \o <<V6Hextet(octets.val[1] * 256 + octets.val[2]),
                             V6Hextet(octets.val[3] * 256 + octets.val[4])>>]

V6PartsOf(s, raw, parsed) ==
    IF s = "" \/ Len(raw) < 3 THEN NoOctets
    ELSE IF Contains(raw[Len(raw)], ".")
    THEN V6Suffix(SubSeq(parsed, 1, Len(raw) - 1), v4_octets(raw[Len(raw)]))
    ELSE [ok |-> TRUE, val |-> parsed]

V6Split(s, raw) == V6PartsOf(s, raw, [i \in 1..Len(raw) |-> V6Part(raw[i])])

\* The ':'-separated parts of an IPv6 literal.
v6_parts(s) == V6Split(s, split(s, ":"))

RECURSIVE HextetsValue(_, _)
HextetsValue(hs, acc) ==
    IF hs = <<>> THEN acc ELSE HextetsValue(Tail(hs), acc * 65536 + Head(hs))

\* parts_hi leading parts, parts_skipped zero hextets, parts_lo trailing parts
V6Value(parts, parts_hi, parts_skipped, parts_lo) ==
    LET n == Len(parts)
        used == [i \in 1..(parts_hi + parts_lo) |->
                    IF i <= parts_hi THEN parts[i].h
                    ELSE parts[n - parts_lo + (i - parts_hi)].h]
    IN  IF \E i \in DOMAIN used : ~used[i].ok THEN Fail
        ELSE Ok(HextetsValue(
                [i \in 1..8 |->
                    IF i <= parts_hi THEN used[i].val
                    ELSE IF i <= parts_hi + parts_skipped THEN 0
                    ELSE used[i - parts_skipped].val], 0))

V6Skipped(parts, skip_index) ==
    LET n == Len(parts)
        parts_hi == IF parts[1].empty THEN skip_index - 2 ELSE skip_index - 1
        parts_lo == IF parts[n].empty THEN n - skip_index - 1 ELSE n - skip_index
        parts_skipped == 8 - (parts_hi + parts_lo)
    IN  IF \/ parts[1].empty /\ parts_hi # 0
           \/ parts[n].empty /\ parts_lo # 0
           \/ parts_skipped < 1
        THEN [ok |-> FALSE, hi |-> 0, skipped |-> 0, lo |-> 0]
        ELSE [ok |-> TRUE, hi |-> parts_hi, skipped |-> parts_skipped,
              lo |-> parts_lo]

V6Layout(parts, skips) ==
    IF Len(parts) > 9 \/ Cardinality(skips) > 1
    THEN [ok |-> FALSE, hi |-> 0, skipped |-> 0, lo |-> 0]
    ELSE IF skips # {} THEN V6Skipped(parts, CHOOSE i \in skips : TRUE)
    ELSE IF Len(parts) # 8 \/ parts[1].empty \/ parts[Len(parts)].empty
    THEN [ok |-> FALSE, hi |-> 0, skipped |-> 0, lo |-> 0]
    ELSE [ok |-> TRUE, hi |-> 8, skipped |-> 0, lo |-> 0]

V6Laid(parts, layout) ==
    IF layout.ok THEN V6Value(parts, layout.hi, layout.skipped, layout.lo)
    ELSE Fail

V6IntOfParts(pr) ==
    IF ~pr.ok THEN Fail
    ELSE V6Laid(pr.val,
                V6Layout(pr.val,
                         {i \in 2..(Len(pr.val) - 1) : pr.val[i].empty}))

\* _BaseV6._ip_int_from_string
v6_int(s) == V6IntOfParts(v6_parts(s))

V6Scoped(s, pct) ==
    IF Contains(s, "/") \/ Len(pct) > 2 THEN Fail
    ELSE IF Len(pct) = 2 /\ pct[2] = "" THEN Fail
    ELSE v6_int(pct[1])

\* IPv6Address(str): no '/', an optional non-empty %scope without '%'
IPv6Address(s) == V6Scoped(s, split(s, "%"))

PrefixInRange(v, max_prefixlen) == IF v <= max_prefixlen THEN Ok(v) ELSE Fail

\* _prefix_from_prefix_string
prefix_from_prefix_string(s, max_prefixlen) ==
    IF isdigit(s) THEN PrefixInRange(DigitsValue(s, 10, 0), max_prefixlen)
    ELSE Fail

MaskBit(o, i) == (o[((i - 1) \div 8) + 1] \div Pow2(7 - ((i - 1) % 8))) % 2

\* A netmask 1*0* (also all ones, all zeroes), else a hostmask 0*1*.
PrefixOfMask(bits) ==
    LET netmask(p) == \A i \in 1..32 : bits[i] = (IF i <= p THEN 1 ELSE 0)
        hostmask(p) == \A i \in 1..32 : bits[i] = (IF i <= p THEN 0 ELSE 1)
    IN  IF \E p \in 0..32 : netmask(p)
        THEN Ok(CHOOSE p \in 0..32 : netmask(p))
        ELSE IF \E p \in 0..32 : hostmask(p)
        THEN Ok(CHOOSE p \in 0..32 : hostmask(p))
        ELSE Fail

PrefixOfOctets(octets) ==
    IF ~octets.ok THEN Fail
    ELSE PrefixOfMask([i \in 1..32 |-> MaskBit(octets.val, i)])

\* _prefix_from_ip_string: the mask in dotted-quad form
prefix_from_ip_string(s) == PrefixOfOctets(v4_octets(s))

NoParse == [kind |-> "none", version |-> 0, lo |-> 0, hi |-> 0]

\* The host bits kept: the block starts at the address given.
BlockAtAddress(version, packed, size) ==
    [kind |-> "network", version |-> version,
     lo |-> packed, hi |-> packed + size - 1]

\* The pair built as (broadcast_address, network_address).
BlockEndFirst(version, packed, size) ==
    [kind |-> "network", version |-> version,
     lo |-> packed - (packed % size) + size - 1, hi |-> packed - (packed % size)]

\* network_address = packed & netmask, broadcast_address = network | hostmask
Block(version, packed, size) ==
    [kind |-> "network", version |-> version,
     lo |-> packed - (packed % size), hi |-> packed - (packed % size) + size - 1]

Network(version, addr, mask, max_prefixlen) ==
    IF ~addr.ok \/ ~mask.ok THEN NoParse
    ELSE Block(version, addr.val, Pow2(max_prefixlen - mask.val))

\* IPv4's _make_netmask: a prefix length, else a dotted-quad mask
V4MaskOr(byLength, arg) ==
    IF byLength.ok THEN byLength ELSE prefix_from_ip_string(arg)

V4Mask(parts) ==
    IF Len(parts) = 1 THEN Ok(32)
    ELSE V4MaskOr(prefix_from_prefix_string(parts[2], 32), parts[2])

V4NetOfParts(parts) ==
    IF Len(parts) > 2 THEN NoParse
    ELSE Network(4, IPv4Address(parts[1]), V4Mask(parts), 32)

\* IPv4Network(address, strict=False)
IPv4Network(s) == V4NetOfParts(split(s, "/"))

V6Mask(parts) ==
    IF Len(parts) = 1 THEN Ok(128) ELSE prefix_from_prefix_string(parts[2], 128)

V6NetOfParts(parts) ==
    IF Len(parts) > 2 THEN NoParse
    ELSE Network(6, IPv6Address(parts[1]), V6Mask(parts), 128)

\* IPv6Network(address, strict=False)
IPv6Network(s) == V6NetOfParts(split(s, "/"))

FirstNetwork(v4, v6) == IF v4.kind # "none" THEN v4 ELSE v6

ip_network(s) == FirstNetwork(IPv4Network(s), IPv6Network(s))

FirstAddress(v4, v6) ==
    IF v4.ok THEN [kind |-> "address", version |-> 4, lo |-> v4.val, hi |-> v4.val]
    ELSE IF v6.ok
    THEN [kind |-> "address", version |-> 6, lo |-> v6.val, hi |-> v6.val]
    ELSE NoParse

ip_address(s) == FirstAddress(IPv4Address(s), IPv6Address(s))

\* parse_ip: None is NoParse
parse_ip(ip_str) ==
    IF Contains(ip_str, "/") THEN ip_network(ip_str) ELSE ip_address(ip_str)

(***************************************************************************)
(* parse_line: a line is given by what re.findall(regex, line) returns for *)
(* it, a sequence of matches; a match is a sequence of strings, of length  *)
(* 1 for a str match and of length >= 2 for a tuple of groups.             *)
(***************************************************************************)
None == <<>>
Some(v) == <<v>>

\* next((group for group in match if group), None)
first_group(match) ==
    IF \A i \in 1..Len(match) : match[i] = "" THEN None
    ELSE Some(match[CHOOSE i \in 1..Len(match) :
                        match[i] # "" /\ \A j \in 1..(i - 1) : match[j] = ""])

parse_line(matches) ==
    [i \in 1..Len(matches) |->
        IF Len(matches[i]) = 1 THEN Some(matches[i][1])
        ELSE first_group(matches[i])]

\* download_single_list's loop: ips.extend(parse_line(line, regex)) per line
RECURSIVE extract(_)
extract(lines) ==
    IF lines = <<>> THEN <<>> ELSE parse_line(Head(lines)) \o extract(Tail(lines))

(***************************************************************************)
(* process_feeds.                                                          *)
(***************************************************************************)
Nothing == [to |-> "none", item |-> <<>>]

\* A bound that is no integer taken as 0 instead of the token being left
\* to parse_ip.
numeric_range_defaulting(parts) ==
    IF Len(parts) = 2
    THEN [to |-> "networks",
          item |-> <<IF parts[1].ok THEN parts[1].val ELSE 0,
                     IF parts[2].ok THEN parts[2].val ELSE 0>>]
    ELSE Nothing

\* The bounds put in order: (min, max) instead of (start, end).
numeric_range_ordered(parts) ==
    IF Len(parts) = 2 /\ parts[1].ok /\ parts[2].ok
    THEN [to |-> "networks",
          item |-> IF parts[1].val <= parts[2].val
                   THEN <<parts[1].val, parts[2].val>>
                   ELSE <<parts[2].val, parts[1].val>>]
    ELSE Nothing

\* `start = int(parts[0]); end = int(parts[1])` under the try
numeric_range(parts) ==
    IF Len(parts) = 2 /\ parts[1].ok /\ parts[2].ok
    THEN [to |-> "networks", item |-> <<parts[1].val, parts[2].val>>]
    ELSE Nothing

RangeOfParts(parts) ==
    numeric_range([i \in 1..Len(parts) |-> py_int(parts[i])])

\* lines 75-83: the token with exactly one "-"
range_entity(s) ==
    IF Contains(s, "-") /\ count(s, "-") = 1 THEN RangeOfParts(split(s, "-"))
    ELSE Nothing

\* The address kept with its version: (int(parsed), parsed.version).
ip_entity_versioned(parsed) ==
    IF parsed.kind = "none" THEN Nothing
    ELSE IF parsed.kind = "network"
    THEN [to |-> "networks", item |-> <<parsed.lo, parsed.hi>>]
    ELSE [to |-> "addresses", item |-> <<parsed.lo, parsed.version>>]

\* lines 84-92: the token given to parse_ip
ip_entity(parsed) ==
    IF parsed.kind = "none" THEN Nothing
    ELSE IF parsed.kind = "network"
    THEN [to |-> "networks", item |-> <<parsed.lo, parsed.hi>>]
    ELSE [to |-> "addresses", item |-> <<parsed.lo>>]

first_match(asRange, asIp) == IF asRange.to # "none" THEN asRange ELSE asIp

\* One iteration of the token loop: what the token appends, and to which list.
entity(ip_str) ==
    IF ip_str = None \/ ip_str = Some("") THEN Nothing
    ELSE first_match(range_entity(ip_str[1]), ip_entity(parse_ip(ip_str[1])))

entities(ip_strings) == [i \in 1..Len(ip_strings) |-> entity(ip_strings[i])]

\* The list `addresses` (to = "addresses") or `networks` after the loop.
RECURSIVE appended(_, _)
appended(es, to) ==
    IF es = <<>> THEN <<>>
    ELSE (IF Head(es).to = to THEN <<Head(es).item>> ELSE <<>>)
         \o appended(Tail(es), to)

\* Python's order on tuples of integers of one length.
RECURSIVE tuple_less(_, _)
tuple_less(a, b) ==
    /\ a # <<>>
    /\ \/ Head(a) < Head(b)
       \/ Head(a) = Head(b) /\ tuple_less(Tail(a), Tail(b))

py_set(list) == {list[i] : i \in DOMAIN list}

RECURSIVE py_sorted(_)
py_sorted(S) ==
    IF S = {} THEN <<>>
    ELSE LET least == CHOOSE x \in S : \A y \in S \ {x} : tuple_less(x, y)
         IN  <<least>> \o py_sorted(S \ {least})

\* An insertion sort of the list, its duplicates kept: sorted(...) alone.
RECURSIVE SortedKeepingDuplicates(_)
SortedKeepingDuplicates(list) ==
    IF list = <<>> THEN <<>>
    ELSE LET rest == SortedKeepingDuplicates(Tail(list))
             before == {i \in 1..Len(rest) : tuple_less(rest[i], Head(list))}
         IN  SubSeq(rest, 1, Cardinality(before)) \o <<Head(list)>>
             \o SubSeq(rest, Cardinality(before) + 1, Len(rest))

\* The duplicates dropped, the order of first appearance kept.
RECURSIVE InOrderOfAppearance(_)
InOrderOfAppearance(list) ==
    IF list = <<>> THEN <<>>
    ELSE LET before == InOrderOfAppearance(SubSeq(list, 1, Len(list) - 1))
             last == list[Len(list)]
         IN  IF \E i \in DOMAIN before : before[i] = last THEN before
             ELSE Append(before, last)

\* sorted(set(...)) of lines 94-95
sorted_set(list) == py_sorted(py_set(list))

\* An address inside a listed interval left out.
finalize_covering(es) ==
    LET nets == sorted_set(appended(es, "networks"))
        kept == SelectSeq(sorted_set(appended(es, "addresses")),
                    LAMBDA a : ~\E i \in DOMAIN nets :
                                   nets[i][1] <= a[1] /\ a[1] <= nets[i][2])
    IN  [addresses |-> [i \in 1..Len(kept) |-> kept[i][1]], networks |-> nets]

\* lines 94-97
finalize(es) ==
    [addresses |-> [i \in 1..Len(sorted_set(appended(es, "addresses"))) |->
                       sorted_set(appended(es, "addresses"))[i][1]],
     networks |-> sorted_set(appended(es, "networks"))]

\* One feed: lines 69-97.
processed_feed(ip_strings) == finalize(entities(ip_strings))

\* `addresses` and `networks` created once, before the loop over the
\* feeds: a feed's output holds the entries of the feeds before it too.
RECURSIVE UpTo(_, _)
UpTo(fs, n) == IF n \notin DOMAIN fs THEN <<>> ELSE UpTo(fs, n - 1) \o fs[n]

process_feeds_accumulating(fs) ==
    [list_name \in DOMAIN fs |-> processed_feed(UpTo(fs, list_name))]

process_feeds(fs) == [list_name \in DOMAIN fs |-> processed_feed(fs[list_name])]

(***************************************************************************)
(* The environment: what each source's URL serves.  A page is the sequence *)
(* of its lines, each line given by its matches under the source's regex.  *)
(***************************************************************************)
DecStr(n) ==
    LET d == <<"0", "1", "2", "3", "4", "5", "6", "7", "8", "9">>
    IN  IF n < 10 THEN d[n + 1] ELSE d[(n \div 10) + 1] \o d[(n % 10) + 1]

Page(name) ==
    CASE name % 4 = 1 ->
            << << <<"10.0.0." \o DecStr(name)>> >>,
               << >>,
               << <<"10.0.0.0/30">>, <<"100-200">> >> >>
      [] name % 4 = 2 ->
            << << <<"", "10.0." \o DecStr(name) \o ".0/24">>, <<"", "">> >>,
               << <<"200-100", "">> >> >>
      [] name % 4 = 3 -> << >>
      [] OTHER ->
            << << <<"bogus">>, <<"">>, <<"10.0.0." \o DecStr(name)>> >> >>

Clock == {1, 2}

(***************************************************************************)
(* State.                                                                  *)
(***************************************************************************)
VARIABLES
    sources,      \* main: the source list read from feeds.json (names, in order)
    unreliable,   \* environment: the sources whose URL can fail an attempt
    pc,           \* main's position
    submitted,    \* download_all_feeds: how many sources are submitted
    st,           \* per source: its unit of work's position
    attempt,      \* per source: download_source's loop variable
    log,          \* per source: the attempts' outcomes and the sleeps so far
    lines,        \* per source: what download_source returned
    result,       \* per source: the future's result (name, ips)
    feeds,        \* download_all_feeds: the result map
    processed,    \* main: what process_feeds returned
    file          \* blocklist.json

vars == <<sources, unreliable, pc, submitted, st, attempt, log, lines, result,
          feeds, processed, file>>

Names == {sources[i] : i \in DOMAIN sources}

Position(s) == CHOOSE i \in DOMAIN sources : sources[i] = s

InFlight == {s \in Names : st[s] \in {"fetching", "sleeping"}}

EmptyMap == [n \in {} |-> <<>>]

PreviousFile == [content |-> "previous", doc |-> None]

InitRun(srcs, flaky) ==
    /\ sources = srcs
    /\ unreliable = flaky
    /\ pc = "download"
    /\ submitted = 0
    /\ st = [s \in Names |-> "unsubmitted"]
    /\ attempt = [s \in Names |-> 0]
    /\ log = [s \in Names |-> <<>>]
    /\ lines = [s \in Names |-> None]
    /\ result = [s \in Names |-> None]
    /\ feeds = EmptyMap
    /\ processed = EmptyMap
    /\ file = PreviousFile

\* Any list of up to NumSources sources, every URL able to fail.
Init ==
    \E n \in 0..NumSources :
        InitRun([i \in 1..n |-> i], 1..n)

(***************************************************************************)
(* download_all_feeds: the executor.                                       *)
(***************************************************************************)
\* ThreadPoolExecutor(max_workers=10): a work item is taken from the queue
\* only by a worker that runs no other item.
\* An off-by-one comparison.
worker_free_inclusive(busy) == busy <= max_workers

\* The comparison the wrong way round.
worker_free_flipped(busy) == busy > max_workers

worker_free(busy) == busy < max_workers

\* executor.submit(download_single_list, source), in the order of the list
Submit ==
    /\ pc = "download"
    /\ submitted < Len(sources)
    /\ submitted' = submitted + 1
    /\ st' = [st EXCEPT ![sources[submitted + 1]] = "queued"]
    /\ UNCHANGED <<sources, unreliable, pc, attempt, log, lines, result,
                   feeds, processed, file>>

\* A worker takes the oldest queued item and enters download_source's loop.
Start(s) ==
    /\ st[s] = "queued"
    /\ \A t \in Names : st[t] = "queued" => Position(s) <= Position(t)
    /\ worker_free(Cardinality(InFlight))
    /\ st' = [st EXCEPT ![s] = "fetching"]
    /\ attempt' = [attempt EXCEPT ![s] = 1]
    /\ UNCHANGED <<sources, unreliable, pc, submitted, log, lines, result,
                   feeds, processed, file>>

(***************************************************************************)
(* download_source and download_single_list, run by the worker.            *)
(***************************************************************************)
\* `return "name", ips`: one key for every source.
single_list_one_key(name, downloaded) == <<1, extract(downloaded)>>

\* download_single_list: the future's result for the lines downloaded
single_list(name, downloaded) == <<name, extract(downloaded)>>

\* `if attempt <= 3`: a sleep after the last failure too.
sleeps_after_every(a) == a <= LastAttempt

\* `if attempt < 3: time.sleep(1)`
sleeps_after(a) == a < BackoffBefore

\* range(1, 5): one attempt too many.
loops_once_more(a) == a <= LastAttempt

\* `for attempt in range(1, 4)`: is there another iteration
loops_again(a) == a < LastAttempt

\* download_source returns `downloaded`; download_single_list extracts the
\* tokens and returns, which finishes the future.
Finish(s, downloaded) ==
    /\ lines' = [lines EXCEPT ![s] = Some(downloaded)]
    /\ result' = [result EXCEPT ![s] = Some(single_list(s, downloaded))]
    /\ st' = [st EXCEPT ![s] = "finished"]

\* `raise` in place of `return []`: the future finishes with the exception.
NextIterationRaising(s) ==
    IF loops_again(attempt[s])
    THEN /\ attempt' = [attempt EXCEPT ![s] = @ + 1]
         /\ st' = [st EXCEPT ![s] = "fetching"]
         /\ UNCHANGED <<lines, result>>
    ELSE /\ st' = [st EXCEPT ![s] = "raised"]
         /\ UNCHANGED <<attempt, lines, result>>

\* The retry handed back to the executor as a new work item instead of
\* being made in the loop.
NextIterationRequeued(s) ==
    IF loops_again(attempt[s])
    THEN /\ attempt' = [attempt EXCEPT ![s] = @ + 1]
         /\ st' = [st EXCEPT ![s] = "queued"]
         /\ UNCHANGED <<lines, result>>
    ELSE /\ Finish(s, <<>>)
         /\ UNCHANGED attempt

\* The end of an iteration that failed: the next attempt, or `return []`.
NextIteration(s) ==
    IF loops_again(attempt[s])
    THEN /\ attempt' = [attempt EXCEPT ![s] = @ + 1]
         /\ st' = [st EXCEPT ![s] = "fetching"]
         /\ UNCHANGED <<lines, result>>
    ELSE /\ Finish(s, <<>>)
         /\ UNCHANGED attempt

\* urlopen succeeds: `return content.splitlines()`.
AttemptSucceeds(s) ==
    /\ st[s] = "fetching"
    /\ log' = [log EXCEPT ![s] = Append(@, "ok")]
    /\ Finish(s, Page(s))
    /\ UNCHANGED <<sources, unreliable, pc, submitted, attempt, feeds,
                   processed, file>>

\* urlopen or read raises: the except branch.
AttemptFails(s) ==
    /\ st[s] = "fetching"
    /\ s \in unreliable
    /\ IF sleeps_after(attempt[s])
       THEN /\ log' = [log EXCEPT ![s] = @ \o <<"err", "sleep">>]
            /\ st' = [st EXCEPT ![s] = "sleeping"]
            /\ UNCHANGED <<attempt, lines, result>>
       ELSE /\ log' = [log EXCEPT ![s] = Append(@, "err")]
            /\ NextIteration(s)
    /\ UNCHANGED <<sources, unreliable, pc, submitted, feeds, processed, file>>

\* time.sleep(1) returns.
Wake(s) ==
    /\ st[s] = "sleeping"
    /\ NextIteration(s)
    /\ UNCHANGED <<sources, unreliable, pc, submitted, log, feeds, processed,
                   file>>

(***************************************************************************)
(* download_all_feeds: the collecting loop, in main's thread.              *)
(***************************************************************************)
\* `if ips: feeds[name] = ips`: an empty list is not stored.
store_if_any(fs, name, ips) ==
    IF ips = <<>> THEN fs
    ELSE [n \in DOMAIN fs \cup {name} |-> IF n = name THEN ips ELSE fs[n]]

\* `feeds = {name: ips}`: the map is rebound, not updated.
store_rebinding(fs, name, ips) == [n \in {name} |-> ips]

\* feeds[len(feeds) + 1] = ips: keyed by arrival, not by name.
store_by_arrival(fs, name, ips) ==
    [n \in DOMAIN fs \cup {Cardinality(DOMAIN fs) + 1} |->
        IF n = Cardinality(DOMAIN fs) + 1 THEN ips ELSE fs[n]]

\* feeds[name] = ips
store(fs, name, ips) ==
    [n \in DOMAIN fs \cup {name} |-> IF n = name THEN ips ELSE fs[n]]

\* One iteration of `for future in as_completed(futures)`.
Collect(s) ==
    /\ pc = "download"
    /\ submitted = Len(sources)
    /\ st[s] = "finished"
    /\ feeds' = store(feeds, result[s][1][1], result[s][1][2])
    /\ st' = [st EXCEPT ![s] = "collected"]
    /\ UNCHANGED <<sources, unreliable, pc, submitted, attempt, log, lines,
                   result, processed, file>>

\* as_completed is exhausted, the executor shuts down, `return feeds`.
Return ==
    /\ pc = "download"
    /\ submitted = Len(sources)
    /\ \A s \in Names : st[s] = "collected"
    /\ pc' = "process"
    /\ UNCHANGED <<sources, unreliable, submitted, st, attempt, log, lines,
                   result, feeds, processed, file>>

(***************************************************************************)
(* main, after the download.                                               *)
(***************************************************************************)
ProcessFeeds ==
    /\ pc = "process"
    /\ processed' = process_feeds(feeds)
    /\ pc' = "open"
    /\ UNCHANGED <<sources, unreliable, submitted, st, attempt, log, lines,
                   result, feeds, file>>

\* open("blocklist.json", "w") truncates the file.
OpenOutput ==
    /\ pc = "open"
    /\ file' = [content |-> "empty", doc |-> None]
    /\ pc' = "dump"
    /\ UNCHANGED <<sources, unreliable, submitted, st, attempt, log, lines,
                   result, feeds, processed>>

\* json.dump(output, file) and the close of the file.
Dump ==
    /\ pc = "dump"
    /\ \E timestamp \in Clock :
          file' = [content |-> "complete",
                   doc |-> Some([timestamp |-> timestamp, feeds |-> processed])]
    /\ pc' = "done"
    /\ UNCHANGED <<sources, unreliable, submitted, st, attempt, log, lines,
                   result, feeds, processed>>

Next ==
    \/ Submit
    \/ \E s \in Names : Start(s)
    \/ \E s \in Names : AttemptSucceeds(s)
    \/ \E s \in Names : AttemptFails(s)
    \/ \E s \in Names : Wake(s)
    \/ \E s \in Names : Collect(s)
    \/ Return
    \/ ProcessFeeds
    \/ OpenOutput
    \/ Dump

Spec == Init /\ [][Next]_vars

\* More sources than workers; only the first source's URL can fail.
InitPool == InitRun([i \in 1..(max_workers + Overflow) |-> i], {1})

SpecPool == InitPool /\ [][Next]_vars

(***************************************************************************)
(* process_feeds alone, on any token lists of up to MaxTokens tokens.      *)
(***************************************************************************)
Tokens ==
    {None, Some(""), Some("bogus"),
     Some("10.0.0.1"), Some("10.0.0.2"), Some("::a00:1"), Some("::1%a-b"),
     Some("10.0.0.0/30"), Some("10.0.0.5/30"), Some("10.0.0.2/31"),
     Some("10.0.0.1/32"),
     Some("10.0.0.1/33"), Some("::a00:0/126"),
     Some("100-200"), Some("200-100"), Some("7-7"), Some(" 5-7"),
     Some("167772160-167772163"), Some("1_0-+2"),
     Some("5-"), Some("1-2-3"), Some("10.0.0.1-10.0.0.5")}

\* The list of the spec's scenario.
Example ==
    <<Some("10.0.0.1"), Some("10.0.0.1"), Some("10.0.0.0/30"), Some("100-200")>>

TokenLists ==
    UNION {[1..n -> Tokens] : n \in 0..MaxTokens} \cup {Example}

InitParse ==
    /\ sources = <<1>>
    /\ unreliable = {}
    /\ pc = "process"
    /\ submitted = 1
    /\ st = [s \in {1} |-> "collected"]
    /\ attempt = [s \in {1} |-> 1]
    /\ log = [s \in {1} |-> <<"ok">>]
    /\ lines = [s \in {1} |-> None]
    /\ result = [s \in {1} |-> None]
    /\ feeds \in [{1} -> TokenLists]
    /\ processed = EmptyMap
    /\ file = PreviousFile

NextParse == ProcessFeeds

SpecParse == InitParse /\ [][NextParse]_vars

(***************************************************************************)
(* process_feeds on two feeds, each of up to MaxTokens tokens.             *)
(***************************************************************************)
FeedTokens ==
    {Some("10.0.0.2"), Some("10.0.0.1"), Some("10.0.0.0/30"), Some("200-100")}

FeedLists ==
    UNION {[1..n -> FeedTokens] : n \in 0..MaxTokens}

InitFeeds ==
    /\ sources = <<1, 2>>
    /\ unreliable = {}
    /\ pc = "process"
    /\ submitted = 2
    /\ st = [s \in {1, 2} |-> "collected"]
    /\ attempt = [s \in {1, 2} |-> 1]
    /\ log = [s \in {1, 2} |-> <<"ok">>]
    /\ lines = [s \in {1, 2} |-> None]
    /\ result = [s \in {1, 2} |-> None]
    /\ feeds \in [{1, 2} -> FeedLists]
    /\ processed = EmptyMap
    /\ file = PreviousFile

SpecFeeds == InitFeeds /\ [][NextParse]_vars

(***************************************************************************)
(* Properties.                                                             *)
(***************************************************************************)
\* download_all_feeds has returned.
Returned == pc \in {"process", "open", "dump", "done"}

\* process_feeds has returned.
Normalized == pc \in {"open", "dump", "done"}

Errors(s) == Cardinality({i \in DOMAIN log[s] : log[s][i] = "err"})

Succeeded(s) == log[s] # <<>> /\ log[s][Len(log[s])] = "ok"

Exhausted(s) == Errors(s) = 3

Done(s) == st[s] \in {"finished", "collected"}

\* The tokens of a source, given the outcome of its own attempts only.
OwnTokens(s) == IF Succeeded(s) THEN extract(Page(s)) ELSE <<>>

EmptyFeed == [addresses |-> <<>>, networks |-> <<>>]

ExhaustedSourceIsAnEmptyFeed ==
    \A s \in Names :
        Exhausted(s) =>
            /\ Done(s)
            /\ lines[s] = Some(<<>>)
            /\ result[s] = Some(<<s, <<>>>>)
            /\ Returned => s \in DOMAIN feeds /\ feeds[s] = <<>>
            /\ Normalized => processed[s] = EmptyFeed
            /\ file.content = "complete" => file.doc[1].feeds[s] = EmptyFeed

ExhaustedWitness ==
    /\ pc = "done"
    /\ file.content = "complete"
    /\ \E s \in Names : Exhausted(s) /\ Page(s) # <<>>

\* The attempts of one download_source call: between 1 and 3, none after a
\* success, the lines of the successful response returned.
AttemptsOfACall(s) ==
    /\ Len(SelectSeq(log[s], LAMBDA e : e \in {"ok", "err"})) <= 3
    /\ st[s] \in {"fetching", "sleeping"} => attempt[s] \in 1..3
    /\ \A i \in 1..(Len(log[s]) - 1) : log[s][i] # "ok"
    /\ Done(s) => Len(SelectSeq(log[s], LAMBDA e : e \in {"ok", "err"})) >= 1
    /\ Succeeded(s) => Done(s) /\ lines[s] = Some(Page(s))

\* C3 as claimed: ..., and the call returns the empty sequence only if all
\* three attempts failed.
EmptyOnlyAfterThreeFailures ==
    \A s \in Names :
        /\ AttemptsOfACall(s)
        /\ lines[s] = Some(<<>>) => Exhausted(s)

\* C3, amended: ..., and the call returns the empty sequence only if all
\* three attempts failed or the successful response has no lines.
EmptyOnlyAfterThreeFailuresOrEmptyBody ==
    \A s \in Names :
        /\ AttemptsOfACall(s)
        /\ lines[s] = Some(<<>>) =>
              \/ Exhausted(s) /\ ~Succeeded(s)
              \/ Succeeded(s) /\ Page(s) = <<>>
        /\ Done(s) /\ ~Succeeded(s) => Exhausted(s) /\ lines[s] = Some(<<>>)

\* One call succeeded at its second attempt, another one returned after
\* three failures.
AttemptsWitness ==
    \E s, t \in Names :
        /\ log[s] = <<"err", "sleep", "ok">> /\ Done(s) /\ Page(s) # <<>>
        /\ Exhausted(t) /\ Done(t)

\* C4: at most 10 units of work are in flight (fetching, or asleep between
\* attempts), however many sources there are; the others wait in the
\* queue, no attempt made for them.
AtMostTenInFlight ==
    /\ Cardinality(InFlight) <= 10
    /\ \A s \in Names :
          st[s] \in {"unsubmitted", "queued"} => attempt[s] = 0 /\ log[s] = <<>>

\* Ten units in flight, one of them asleep, and a source waiting.
PoolFullWitness ==
    /\ Cardinality(InFlight) = 10
    /\ \E s \in Names : st[s] = "sleeping"
    /\ \E s \in Names : st[s] = "queued"

\* C5: a source that fails three times neither cancels nor blocks another
\* source: the other one's work can proceed while in flight, it is fetched,
\* and its tokens in the result map are those of its own response.
FailureIsIsolated ==
    \A s \in Names :
        Exhausted(s) =>
            \A t \in Names \ {s} :
                /\ st[t] \in {"unsubmitted", "queued", "fetching", "sleeping",
                              "finished", "collected"}
                /\ st[t] = "fetching" => ENABLED AttemptSucceeds(t)
                /\ st[t] = "sleeping" => ENABLED Wake(t)
                /\ st[t] = "finished" /\ submitted = Len(sources)
                      => ENABLED Collect(t)
                /\ Returned =>
                      /\ log[t] # <<>>
                      /\ t \in DOMAIN feeds
                      /\ feeds[t] = OwnTokens(t)

\* The download returned; a source failed three times, its neighbours
\* succeeded, one of them only after that failure.
IsolationWitness ==
    /\ Returned
    /\ \E s, t \in Names :
          /\ Exhausted(s) /\ Succeeded(t) /\ feeds[t] # <<>>
          /\ log[t] = <<"err", "sleep", "ok">>

\* C7: whatever the interleaving of the workers and the order in which the
\* futures complete and are collected, each name is mapped to the tokens
\* that its own source's outcome gives, at every point of the collection
\* and in the map returned, and so is each processed feed.
ResultIsIndependentOfOrder ==
    /\ \A s \in DOMAIN feeds : feeds[s] = OwnTokens(s)
    /\ Returned => feeds = [s \in Names |-> OwnTokens(s)]
    /\ Normalized => processed = [s \in Names |-> processed_feed(OwnTokens(s))]

\* The last source submitted is collected before the first one.
OutOfOrderWitness ==
    /\ Len(sources) = NumSources
    /\ sources[NumSources] \in DOMAIN feeds
    /\ sources[1] \notin DOMAIN feeds

(***************************************************************************)
(* process_feeds.                                                          *)
(***************************************************************************)
LexLess(a, b) == a[1] < b[1] \/ (a[1] = b[1] /\ a[2] < b[2])

\* C8: in every ProcessedFeed the addresses are strictly ascending and the
\* networks strictly ascending in lexicographic (start, end) order, so
\* neither holds a value twice, however often the input repeats it.
OutputIsStrictlyAscending ==
    Normalized =>
        \A n \in DOMAIN processed :
            /\ \A i \in 1..(Len(processed[n].addresses) - 1) :
                  processed[n].addresses[i] < processed[n].addresses[i + 1]
            /\ \A i \in 1..(Len(processed[n].networks) - 1) :
                  LexLess(processed[n].networks[i], processed[n].networks[i + 1])

\* An address and a block, each given twice and out of order, come out
\* once and in order.
AscendingWitness ==
    /\ pc = "open"
    /\ \/ /\ feeds[1] = <<Some("10.0.0.2"), Some("10.0.0.1"), Some("10.0.0.2")>>
          /\ processed[1].addresses = <<167772161, 167772162>>
       \/ /\ feeds[1] = <<Some("200-100"), Some("100-200"), Some("200-100")>>
          /\ processed[1].networks = <<<<100, 200>>, <<200, 100>>>>

\* The tokens of Tokens that are 'X-Y' with X and Y base-10 integers, each
\* with its X and Y as written.
Written ==
    {<<"100-200", 100, 200>>, <<"200-100", 200, 100>>, <<"7-7", 7, 7>>,
     <<" 5-7", 5, 7>>, <<"167772160-167772163", 167772160, 167772163>>,
     <<"1_0-+2", 10, 2>>}

WrittenIn(ip_strings) ==
    {<<w[2], w[3]>> : w \in {v \in Written :
        \E k \in DOMAIN ip_strings : ip_strings[k] = Some(v[1])}}

\* C9 as claimed: every [start, end] pair of networks has start <= end,
\* for CIDR tokens and numeric 'X-Y' tokens alike.
EveryRangeIsOrdered ==
    Normalized =>
        \A n \in DOMAIN processed :
            \A i \in DOMAIN processed[n].networks :
                processed[n].networks[i][1] <= processed[n].networks[i][2]

\* C9, amended: every pair of networks that comes from a CIDR token has
\* start <= end; a pair with start > end is the (X, Y) of a numeric 'X-Y'
\* token of the input with X > Y, and every such token gives such a pair.
RangeIsOrderedUnlessWrittenReversed ==
    Normalized =>
        \A n \in DOMAIN processed :
            {r \in {processed[n].networks[i] :
                        i \in DOMAIN processed[n].networks} : r[1] > r[2]}
            = {r \in WrittenIn(feeds[n]) : r[1] > r[2]}

\* A CIDR block and a numeric range written end first, in one feed.
RangeWitness ==
    /\ pc = "open"
    /\ \E k \in DOMAIN feeds[1] : feeds[1][k] = Some("10.0.0.2/31")
    /\ \E k \in DOMAIN feeds[1] : feeds[1][k] = Some("200-100")
    /\ processed[1].networks = <<<<200, 100>>, <<167772162, 167772163>>>>

\* C10: a token 'X-Y' with X and Y base-10 integers gives the pair (X, Y)
\* to networks, in the order written whether or not X <= Y, and nothing
\* else: a feed of such tokens has exactly their pairs as networks and no
\* address.
NumericRangeIsKeptAsWritten ==
    Normalized =>
        \A n \in DOMAIN processed :
            /\ WrittenIn(feeds[n]) \subseteq
                  {processed[n].networks[i] : i \in DOMAIN processed[n].networks}
            /\ (\A k \in DOMAIN feeds[n] :
                    \E w \in Written : feeds[n][k] = Some(w[1]))
               => /\ {processed[n].networks[i] :
                         i \in DOMAIN processed[n].networks} = WrittenIn(feeds[n])
                  /\ processed[n].addresses = <<>>

\* The ranges written end first, and with a sign, an underscore and a
\* space, are in networks as written.
WrittenWitness ==
    /\ pc = "open"
    /\ feeds[1] = <<Some("200-100"), Some("1_0-+2"), Some(" 5-7")>>
    /\ processed[1].networks = <<<<5, 7>>, <<10, 2>>, <<200, 100>>>>
    /\ processed[1].addresses = <<>>

\* The CIDR tokens of Tokens, each with the network address and the
\* broadcast address of its block.
Cidr ==
    {<<"10.0.0.0/30", 167772160, 167772163>>,
     <<"10.0.0.5/30", 167772164, 167772167>>,
     <<"10.0.0.2/31", 167772162, 167772163>>,
     <<"10.0.0.1/32", 167772161, 167772161>>,
     <<"::a00:0/126", 167772160, 167772163>>}

CidrIn(ip_strings) ==
    {<<c[2], c[3]>> : c \in {v \in Cidr :
        \E k \in DOMAIN ip_strings : ip_strings[k] = Some(v[1])}}

\* C11: a valid CIDR token, host bits set or not, gives networks the pair
\* (network address, broadcast address) of its block, start = end for a
\* block of one address, and gives addresses nothing: a feed of CIDR
\* tokens has exactly their blocks as networks and no address.
CidrIsNetworkAndBroadcast ==
    Normalized =>
        \A n \in DOMAIN processed :
            /\ CidrIn(feeds[n]) \subseteq
                  {processed[n].networks[i] : i \in DOMAIN processed[n].networks}
            /\ (\A k \in DOMAIN feeds[n] :
                    \E c \in Cidr : feeds[n][k] = Some(c[1]))
               => /\ {processed[n].networks[i] :
                         i \in DOMAIN processed[n].networks} = CidrIn(feeds[n])
                  /\ processed[n].addresses = <<>>

\* A block given by an address with host bits, a block of one address and
\* an IPv6 block.
CidrWitness ==
    /\ pc = "open"
    /\ feeds[1] = <<Some("10.0.0.5/30"), Some("10.0.0.1/32"), Some("::a00:0/126")>>
    /\ processed[1].networks = <<<<167772160, 167772163>>,
                                 <<167772161, 167772161>>,
                                 <<167772164, 167772167>>>>
    /\ processed[1].addresses = <<>>

TokensOf(ip_strings) == {ip_strings[k] : k \in DOMAIN ip_strings}

\* C12: the ProcessedFeed depends on the set of a feed's tokens only: two
\* feeds of the same list, of one list permuted, or of one list with tokens
\* repeated, get the same addresses and networks in the same order.
SameTokensSameFeed ==
    Normalized =>
        \A m, n \in DOMAIN processed :
            TokensOf(feeds[m]) = TokensOf(feeds[n]) => processed[m] = processed[n]

\* One feed is the other permuted, with a token repeated.
SameTokensWitness ==
    /\ pc = "open"
    /\ feeds[1] = <<Some("10.0.0.2"), Some("10.0.0.1")>>
    /\ feeds[2] = <<Some("10.0.0.1"), Some("10.0.0.2"), Some("10.0.0.1")>>
    /\ processed[1].addresses = <<167772161, 167772162>>
    /\ processed[2] = processed[1]

\* The tokens of Tokens that are no address, no CIDR block and no numeric
\* range: missing, empty, no IP literal, a prefix length out of range, a
\* bound that is no integer, more than one '-'.
Invalid ==
    {None, Some(""), Some("bogus"), Some("10.0.0.1/33"), Some("5-"),
     Some("1-2-3"), Some("10.0.0.1-10.0.0.5")}

WithoutInvalid(ip_strings) == SelectSeq(ip_strings, LAMBDA t : t \notin Invalid)

\* C13: an invalid token contributes nothing and stops nothing: the
\* ProcessedFeed of a list is that of the list without its invalid tokens,
\* and empty when every token is invalid.
InvalidTokensAreDropped ==
    Normalized =>
        \A n \in DOMAIN processed :
            /\ processed[n] = processed_feed(WithoutInvalid(feeds[n]))
            /\ WithoutInvalid(feeds[n]) = <<>> => processed[n] = EmptyFeed

\* An address between a range with a missing bound and a word: the tokens
\* after the invalid one are still processed.
InvalidWitness ==
    /\ pc = "open"
    /\ feeds[1] = <<Some("5-"), Some("10.0.0.1"), Some("bogus")>>
    /\ processed[1] = [addresses |-> <<167772161>>, networks |-> <<>>]

(***************************************************************************)
(* download_source: the backoff.                                           *)
(***************************************************************************)
Sleeps(s) == Cardinality({i \in DOMAIN log[s] : log[s][i] = "sleep"})

ErrorsUpTo(s, i) == Cardinality({j \in 1..i : log[s][j] = "err"})

\* C15: a sleep happens exactly after a failed attempt 1 or 2, before the
\* next attempt: none after the third failure, none after a success, at
\* most two per call, and no attempt starts before the sleep is over.
SleepExactlyBetweenAttempts ==
    \A s \in Names :
        /\ Sleeps(s) <= 2
        /\ \A i \in DOMAIN log[s] :
              /\ log[s][i] = "sleep" =>
                    i > 1 /\ log[s][i - 1] = "err" /\ ErrorsUpTo(s, i) \in {1, 2}
              /\ log[s][i] = "err" /\ ErrorsUpTo(s, i) \in {1, 2} =>
                    i < Len(log[s]) /\ log[s][i + 1] = "sleep"
              /\ log[s][i] = "err" /\ ErrorsUpTo(s, i) = 3 => i = Len(log[s])
              /\ log[s][i] = "ok" => i = Len(log[s])
        /\ st[s] = "fetching" =>
              /\ attempt[s] = Errors(s) + 1
              /\ Sleeps(s) = Errors(s)
              /\ log[s] # <<>> => log[s][Len(log[s])] = "sleep"
        /\ st[s] = "sleeping" =>
              /\ log[s][Len(log[s])] = "sleep"
              /\ attempt[s] = Errors(s)
              /\ Sleeps(s) = Errors(s)
        /\ Done(s) => Sleeps(s) = (IF Succeeded(s) THEN Errors(s) ELSE 2)

\* A call that slept twice and failed a third time, and a call in its
\* third attempt after two sleeps.
BackoffWitness ==
    \E s, t \in Names :
        /\ log[s] = <<"err", "sleep", "err", "sleep", "err">> /\ Done(s)
        /\ log[t] = <<"err", "sleep", "err", "sleep">>
        /\ st[t] = "fetching" /\ attempt[t] = 3

\* The address tokens of Tokens, each with its integer value.
AddressOf ==
    {<<"10.0.0.1", 167772161>>, <<"10.0.0.2", 167772162>>,
     <<"::a00:1", 167772161>>, <<"::1%a-b", 1>>}

AddressIn(ip_strings) ==
    {a[2] : a \in {v \in AddressOf :
        \E k \in DOMAIN ip_strings : ip_strings[k] = Some(v[1])}}

RangeIn(ip_strings) == CidrIn(ip_strings) \cup WrittenIn(ip_strings)

AddressesOf(feed) == {feed.addresses[i] : i \in DOMAIN feed.addresses}

NetworksOf(feed) == {feed.networks[i] : i \in DOMAIN feed.networks}

\* C18: the ProcessedFeed of a source is made of that source's tokens
\* only: what the other feed holds adds nothing to it and takes nothing
\* from it, so an address or an interval in both feeds is in both outputs.
FeedsAreIndependent ==
    Normalized =>
        \A n \in DOMAIN processed :
            /\ AddressesOf(processed[n]) = AddressIn(feeds[n])
            /\ NetworksOf(processed[n]) = RangeIn(feeds[n])
            /\ \A m \in DOMAIN processed :
                  /\ AddressIn(feeds[m]) \cap AddressIn(feeds[n])
                        \subseteq AddressesOf(processed[m]) \cap AddressesOf(processed[n])
                  /\ RangeIn(feeds[m]) \cap RangeIn(feeds[n])
                        \subseteq NetworksOf(processed[m]) \cap NetworksOf(processed[n])

\* Two feeds with an address in common and an interval each.
IndependentWitness ==
    /\ pc = "open"
    /\ feeds[1] = <<Some("10.0.0.1"), Some("200-100")>>
    /\ feeds[2] = <<Some("10.0.0.1"), Some("10.0.0.0/30")>>
    /\ processed[1] = [addresses |-> <<167772161>>, networks |-> <<<<200, 100>>>>]
    /\ processed[2] = [addresses |-> <<167772161>>,
                       networks |-> <<<<167772160, 167772163>>>>]

\* C19: normalization loses, invents and merges nothing: addresses is
\* exactly the set of the values of the address tokens and networks exactly
\* the set of the pairs of the CIDR and numeric range tokens, each once;
\* overlapping, nested and adjacent intervals stay separate entries, and an
\* address inside a listed interval stays in addresses.
EntitiesAreKept ==
    Normalized =>
        \A n \in DOMAIN processed :
            /\ AddressesOf(processed[n]) = AddressIn(feeds[n])
            /\ Len(processed[n].addresses) = Cardinality(AddressIn(feeds[n]))
            /\ NetworksOf(processed[n]) = RangeIn(feeds[n])
            /\ Len(processed[n].networks) = Cardinality(RangeIn(feeds[n]))
            /\ feeds[n] = Example =>
                  processed[n] = [addresses |-> <<167772161>>,
                                  networks |-> <<<<100, 200>>,
                                                 <<167772160, 167772163>>>>]

\* The spec's scenario: an address given twice, inside a listed block.
ExampleWitness ==
    /\ pc = "open"
    /\ feeds[1] = Example
    /\ processed[1].addresses = <<167772161>>
    /\ processed[1].networks = <<<<100, 200>>, <<167772160, 167772163>>>>

\* The tokens of Tokens with one value in two notations.
SameAddress == {Some("10.0.0.1"), Some("::a00:1")}

SameInterval ==
    {Some("10.0.0.0/30"), Some("::a00:0/126"), Some("167772160-167772163")}

\* C20: the output keeps no version: an IPv4 and an IPv6 address token of
\* one integer value give one entry of addresses, and an IPv4 block, an
\* IPv6 block and a numeric range of the same bounds one entry of networks.
VersionIsNotKept ==
    Normalized =>
        \A n \in DOMAIN processed :
            /\ \A i \in DOMAIN processed[n].addresses :
                  processed[n].addresses[i] \in Nat
            /\ \A i \in DOMAIN processed[n].networks :
                  /\ Len(processed[n].networks[i]) = 2
                  /\ processed[n].networks[i][1] \in Nat
                  /\ processed[n].networks[i][2] \in Nat
            /\ TokensOf(feeds[n]) \cap SameAddress # {} =>
                  Cardinality({i \in DOMAIN processed[n].addresses :
                      processed[n].addresses[i] = 167772161}) = 1
            /\ TokensOf(feeds[n]) \cap SameInterval # {} =>
                  Cardinality({i \in DOMAIN processed[n].networks :
                      processed[n].networks[i] = <<167772160, 167772163>>}) = 1

\* The address in both notations, next to an IPv6 block.
SameValueWitness ==
    /\ pc = "open"
    /\ TokensOf(feeds[1]) = SameAddress \cup {Some("::a00:0/126")}
    /\ processed[1] = [addresses |-> <<167772161>>,
                       networks |-> <<<<167772160, 167772163>>>>]

(***************************************************************************)
(* The unit of work of a source: one call of download_single_list, run by  *)
(* the worker that took it from the queue.                                 *)
(***************************************************************************)
AttemptsMade(s) ==
    Cardinality({i \in DOMAIN log[s] : log[s][i] \in {"ok", "err"}})

Running == {"fetching", "sleeping"}

\* What one step may do to the unit of source s.
UnitStep(s) ==
    /\ st[s] \in Running => st'[s] \in Running \cup {"finished"}
    /\ st'[s] \in Running /\ st[s] \notin Running =>
          st[s] = "queued" /\ st'[s] = "fetching" /\ attempt'[s] = 1
    /\ st[s] \in {"finished", "collected"} =>
          /\ st'[s] \in {"finished", "collected"}
          /\ attempt'[s] = attempt[s] /\ log'[s] = log[s]
          /\ lines'[s] = lines[s] /\ result'[s] = result[s]
    /\ attempt'[s] # attempt[s] =>
          attempt'[s] = attempt[s] + 1 /\ st'[s] = "fetching"
    /\ AttemptsMade(s)' \in {AttemptsMade(s), AttemptsMade(s) + 1}
    /\ AttemptsMade(s)' # AttemptsMade(s) => st[s] = "fetching"

Inserts(s) ==
    /\ pc = "download" /\ submitted = Len(sources)
    /\ st[s] = "finished" /\ st'[s] = "collected"
    /\ s \notin DOMAIN feeds
    /\ DOMAIN feeds' = DOMAIN feeds \cup {s}
    /\ feeds'[s] = result[s][1][2]
    /\ \A n \in DOMAIN feeds : feeds'[n] = feeds[n]
    /\ \A t \in Names \ {s} : st'[t] = st[t]

\* C17: the result map is written by the collecting loop only, one
\* insertion per finished unit of work and after it has finished: no step
\* of a worker changes the map, no step writes two keys, and no key is
\* written twice.
MapIsWrittenByTheCollectorOnly ==
    /\ [](DOMAIN feeds = {s \in Names : st[s] = "collected"})
    /\ [][/\ feeds' # feeds => \E s \in Names : Inserts(s)
          /\ \A s \in Names :
                st[s] # "collected" /\ st'[s] = "collected" => Inserts(s)
          /\ \A s \in Names :
                /\ st[s] \in Running \/ st'[s] \in Running
                /\ st'[s] # st[s] \/ attempt'[s] # attempt[s] \/ log'[s] # log[s]
                => feeds' = feeds]_vars

\* One unit's tokens are in the map, another unit is finished and not yet
\* in the map, a third one still runs.
CollectorWitness ==
    \E s, t, u \in Names :
        /\ st[s] = "collected" /\ s \in DOMAIN feeds
        /\ st[t] = "finished" /\ t \notin DOMAIN feeds
        /\ st[u] \in Running

(***************************************************************************)
(* The output file.                                                        *)
(***************************************************************************)
\* C14: blocklist.json is never seen partially written: it holds the
\* previous complete document or the new complete one, and the new one
\* only once every feed is downloaded and processed.
OutputIsWrittenAtomically ==
    /\ file.content \in {"previous", "complete"}
    /\ file.content = "complete" =>
          /\ Normalized
          /\ file.doc[1].feeds = processed
          /\ DOMAIN processed = Names

(***************************************************************************)
(* Termination.  Every attempt finishes (the per-request timeout), every   *)
(* sleep returns, and a thread that can take a step is scheduled: as long  *)
(* as some step of the run is possible, a step is taken.                   *)
(***************************************************************************)
\* The step main takes at process_feeds(feeds), by its position: of the
\* steps of Next, exactly those of ProcessFeeds, which is enabled whenever
\* pc = "process".
ProcessFeedsReturns == pc = "process" /\ pc' = "open"

\* The other steps of Next.
Scheduled ==
    \/ Submit
    \/ \E s \in Names : Start(s)
    \/ \E s \in Names : AttemptSucceeds(s)
    \/ \E s \in Names : AttemptFails(s)
    \/ \E s \in Names : Wake(s)
    \/ \E s \in Names : Collect(s)
    \/ Return
    \/ OpenOutput
    \/ Dump

Fairness == WF_vars(Scheduled) /\ WF_pc(ProcessFeedsReturns)

FairSpec == Init /\ [][Next]_vars /\ Fairness

Queued(s) == s \in Names /\ st[s] = "queued"

====
